---- MODULE Spec2Model ----
(***************************************************************************)
(* Model of the monitored item of the OPC UA server                        *)
(* (server/src/subscriptions/monitored_item.rs): construction from a       *)
(* create request, the sampling decision and change detection of tick,     *)
(* the bounded notification queue with its two overflow policies, and      *)
(* get_notification_message.                                               *)
(*                                                                         *)
(* Time is counted in units of 1/UnitsPerMs of a millisecond, so that      *)
(* instants and intervals that are not whole milliseconds exist in the     *)
(* model (chrono instants have sub-millisecond resolution, and the         *)
(* sampling interval is an f64 number of milliseconds).                    *)
(***************************************************************************)
EXTENDS Integers, Sequences, FiniteSets

(* ---------------------------------------------------------------- bounds *)

\* Requested queue sizes range over 0..MaxQueueSize.
MaxQueueSize == 2
\* Instants range over 0..MaxTime (in time units).
MaxTime == 2
\* Finite sampling intervals range over -1..MaxInterval (in time units).
MaxInterval == 3
\* Time units per millisecond.
UnitsPerMs == 2
\* Ticks are taken until this many notifications have been produced.
MaxProduced == 3

(* ----------------------------------------------------------- data types *)

\* Option<T>: None is the empty sequence, Some(x) the one-element sequence.
None == <<>>
Some(x) == <<x>>
is_none(o) == o = None
is_some(o) == o # None
unwrap(o) == o[1]

\* The variants a DataValue can carry. What a variant holds is opaque to the
\* monitored item: only deadband_compare looks into it, and its answer is an
\* input of tick (FilterResults). Two of them, so that a value read and
\* judged unchanged can differ from the value it was compared with.
Variants == {"A", "B"}

\* DataValue, reduced to the field tick looks at: the optional variant.
DataValues == [value : {None} \cup {Some(v) : v \in Variants}]

\* f64 sampling intervals: NaN, or a finite number of time units.
NaN == [nan |-> TRUE, units |-> 0]
F64(k) == [nan |-> FALSE, units |-> k]
Intervals == {NaN} \cup {F64(k) : k \in (-1)..MaxInterval}

\* f64 comparisons with 0f64: every comparison with NaN is false.
gt0(f) == ~f.nan /\ f.units > 0
eq0(f) == ~f.nan /\ f.units = 0
lt0(f) == ~f.nan /\ f.units < 0

Times == 0..MaxTime

ClientHandles == {"handle"}

\* What the address space answers to one tick: find_node finds no node
\* (None), or a node (Some) whose find_attribute returns None or a DataValue.
AddressSpaces == {None} \cup {Some(attribute) : attribute \in {None} \cup {Some(dv) : dv \in DataValues}}

\* What DataChangeFilter::deadband_compare answers when it is called.
FilterResults == {"Ok(true)", "Ok(false)", "Err"}

\* The type tag of a request's filter payload, and whether it decodes.
FilterTags == {"DataChangeFilter_Encoding_DefaultBinary", "EventFilter_Encoding_DefaultBinary"}

CreateRequests ==
    [filter_tag : FilterTags, filter_decodes : BOOLEAN,
     sampling_interval : Intervals, queue_size : 0..MaxQueueSize,
     discard_oldest : BOOLEAN, client_handle : ClientHandles,
     attribute_id_valid : BOOLEAN]

(* ------------------------------------------------------------ variables *)

VARIABLES
    created,             \* the result of MonitoredItem::new: "Ok" or the error
    sampling_interval,
    discard_oldest,
    queue_size,
    client_handle,
    attribute_id_valid,  \* whether AttributeId::from_u32(item_to_monitor.attribute_id) is Ok
    notification_queue,  \* index 1 is the front (Vec index 0)
    last_sample_time,
    last_data_value,
    queue_overflow,
    \* history of the calls, kept for stating the properties
    create_request,      \* the create request MonitoredItem::new was given
    op,                  \* the last call: "new", "tick" or "get_notification_message"
    arg_now,             \* the last tick's `now`
    arg_elapsed,         \* the last tick's subscription_interval_elapsed
    arg_address_space,   \* what the address space answered in the last tick, if consulted
    arg_filter,          \* what deadband_compare answered in the last tick, if called
    check_value,         \* the last tick's check_value
    found,               \* the data value the last tick read, if it read one
    tick_ret,            \* what the last tick returned
    deq_ret,             \* what the last get_notification_message returned
    n_produced,          \* notifications produced so far
    since_dequeue,       \* notifications produced since the last successful dequeue
    overflow_since_dequeue,  \* whether one of them was produced on a full queue
    n_dequeued,          \* notifications get_notification_message has returned so far
    n_overflow           \* notifications produced on a full queue so far

item == <<sampling_interval, discard_oldest, queue_size, client_handle,
          attribute_id_valid, notification_queue, last_sample_time,
          last_data_value, queue_overflow>>

history == <<create_request, op, arg_now, arg_elapsed, arg_address_space, arg_filter,
             check_value, found, tick_ret, deq_ret,
             n_produced, since_dequeue, overflow_since_dequeue,
             n_dequeued, n_overflow>>

vars == <<created, item, history>>

(* ---------------------------------------------------------- construction *)

\* new_status decoding the payload before it checks the tag.
new_status_decodes_first(request) ==
    IF ~request.filter_decodes
    THEN "BadDecodingError"
    ELSE IF request.filter_tag # "DataChangeFilter_Encoding_DefaultBinary"
    THEN "BadFilterNotAllowed"
    ELSE "Ok"

\* MonitoredItem::new, the status part: the filter tag is checked first,
\* then the payload is decoded.
new_status(request) ==
    IF request.filter_tag # "DataChangeFilter_Encoding_DefaultBinary"
    THEN "BadFilterNotAllowed"
    ELSE IF ~request.filter_decodes
    THEN "BadDecodingError"
    ELSE "Ok"

\* new_queue_size taking the requested size as it is.
new_queue_size_unclamped(requested) == requested

\* The revised queue size of MonitoredItem::new.
new_queue_size(requested) == IF requested < 1 THEN 1 ELSE requested

\* The item MonitoredItem::new returns for an accepted request, at instant utc_now.
new_item(request, utc_now) ==
    [sampling_interval |-> request.sampling_interval,
     discard_oldest |-> request.discard_oldest,
     queue_size |-> new_queue_size(request.queue_size),
     client_handle |-> request.client_handle,
     attribute_id_valid |-> request.attribute_id_valid,
     notification_queue |-> <<>>,
     last_sample_time |-> utc_now,
     last_data_value |-> None,
     queue_overflow |-> FALSE]

\* The values the item's variables hold when new returned an error and there
\* is no item.
no_item ==
    [sampling_interval |-> NaN,
     discard_oldest |-> FALSE,
     queue_size |-> 0,
     client_handle |-> "none",
     attribute_id_valid |-> FALSE,
     notification_queue |-> <<>>,
     last_sample_time |-> 0,
     last_data_value |-> None,
     queue_overflow |-> FALSE]

Init ==
    \E req \in CreateRequests, utc_now \in Times :
        LET it == IF new_status(req) = "Ok"
                  THEN new_item(req, utc_now) ELSE no_item
        IN  /\ create_request = req
            /\ created = new_status(req)
            /\ sampling_interval = it.sampling_interval
            /\ discard_oldest = it.discard_oldest
            /\ queue_size = it.queue_size
            /\ client_handle = it.client_handle
            /\ attribute_id_valid = it.attribute_id_valid
            /\ notification_queue = it.notification_queue
            /\ last_sample_time = it.last_sample_time
            /\ last_data_value = it.last_data_value
            /\ queue_overflow = it.queue_overflow
            /\ op = "new"
            /\ arg_now = 0
            /\ arg_elapsed = FALSE
            /\ arg_address_space = None
            /\ arg_filter = "not called"
            /\ check_value = FALSE
            /\ found = None
            /\ tick_ret = FALSE
            /\ deq_ret = None
            /\ n_produced = 0
            /\ since_dequeue = 0
            /\ overflow_since_dequeue = FALSE
            /\ n_dequeued = 0
            /\ n_overflow = 0

(* --------------------------------------------- get_notification_message *)

\* remove_front taking the entry from the wrong end.
remove_front_takes_back(queue) == SubSeq(queue, 1, Len(queue) - 1)

\* Vec::remove(0): the queue without its front entry.
remove_front(queue) == SubSeq(queue, 2, Len(queue))

get_notification_message ==
    /\ created = "Ok"
    /\ IF notification_queue = <<>>
       THEN /\ deq_ret' = None
            /\ UNCHANGED <<notification_queue, queue_overflow>>
            /\ UNCHANGED <<since_dequeue, overflow_since_dequeue, n_dequeued>>
       ELSE /\ queue_overflow' = FALSE
            /\ deq_ret' = Some(notification_queue[1])
            /\ notification_queue' = remove_front(notification_queue)
            /\ since_dequeue' = 0
            /\ overflow_since_dequeue' = FALSE
            /\ n_dequeued' = n_dequeued + 1
    /\ op' = "get_notification_message"
    /\ arg_now' = 0
    /\ arg_elapsed' = FALSE
    /\ arg_address_space' = None
    /\ arg_filter' = "not called"
    /\ check_value' = FALSE
    /\ found' = None
    /\ tick_ret' = FALSE
    /\ UNCHANGED <<created, sampling_interval, discard_oldest, queue_size,
                   client_handle, attribute_id_valid, last_sample_time,
                   last_data_value, n_produced, n_overflow, create_request>>

(* ------------------------------------------------------------------ tick *)

\* `self.sampling_interval as i64`, for an interval > 0: the whole
\* milliseconds of the interval, the fraction dropped.
as_i64_ms(f) == f.units \div UnitsPerMs

\* time::Duration::milliseconds(ms), in time units.
milliseconds(ms) == ms * UnitsPerMs

\* tick_check_value with the operands of the elapsed time swapped.
tick_check_value_swapped(interval, last_time, last_value, now, subscription_interval_elapsed) ==
    IF gt0(interval)
    THEN LET sampling == milliseconds(as_i64_ms(interval))
             elapsed == last_time - now
         IN  elapsed >= sampling
    ELSE IF eq0(interval)
    THEN TRUE
    ELSE IF lt0(interval)
    THEN subscription_interval_elapsed
    ELSE is_none(last_value)

\* tick_check_value with the zero interval handled like a negative one.
tick_check_value_zero_as_negative(interval, last_time, last_value, now, subscription_interval_elapsed) ==
    IF gt0(interval)
    THEN LET sampling == milliseconds(as_i64_ms(interval))
             elapsed == now - last_time
         IN  elapsed >= sampling
    ELSE IF eq0(interval) \/ lt0(interval)
    THEN subscription_interval_elapsed
    ELSE is_none(last_value)

\* tick_check_value with the negative interval handled like the zero one.
tick_check_value_negative_as_zero(interval, last_time, last_value, now, subscription_interval_elapsed) ==
    IF gt0(interval)
    THEN LET sampling == milliseconds(as_i64_ms(interval))
             elapsed == now - last_time
         IN  elapsed >= sampling
    ELSE IF eq0(interval) \/ lt0(interval)
    THEN TRUE
    ELSE is_none(last_value)

\* The sampling decision of tick (check_value).
tick_check_value(interval, last_time, last_value, now, subscription_interval_elapsed) ==
    IF gt0(interval)
    THEN LET sampling == milliseconds(as_i64_ms(interval))
             elapsed == now - last_time
         IN  elapsed >= sampling
    ELSE IF eq0(interval)
    THEN TRUE
    ELSE IF lt0(interval)
    THEN subscription_interval_elapsed
    ELSE is_none(last_value)

\* compare_data_values taking a failed comparison for a change.
compare_data_values_err_changed(filter_result, dv1, dv2) ==
    LET v1 == dv1.value
        v2 == dv2.value
    IN  IF (is_some(v1) /\ is_none(v2)) \/ (is_none(v1) /\ is_some(v2))
        THEN FALSE
        ELSE IF is_none(v1) /\ is_none(v2)
        THEN TRUE
        ELSE IF filter_result = "Ok(true)" THEN TRUE
        ELSE IF filter_result = "Ok(false)" THEN FALSE
        ELSE FALSE

\* compare_data_values taking two absent variants for a change.
compare_data_values_none_changed(filter_result, dv1, dv2) ==
    LET v1 == dv1.value
        v2 == dv2.value
    IN  IF is_none(v1) \/ is_none(v2)
        THEN FALSE
        ELSE IF filter_result = "Ok(true)" THEN TRUE
        ELSE IF filter_result = "Ok(false)" THEN FALSE
        ELSE TRUE

\* compare_data_values: TRUE when the two values count as the same.
\* filter_result is what deadband_compare answers if it is called.
compare_data_values(filter_result, dv1, dv2) ==
    LET v1 == dv1.value
        v2 == dv2.value
    IN  IF (is_some(v1) /\ is_none(v2)) \/ (is_none(v1) /\ is_some(v2))
        THEN FALSE
        ELSE IF is_none(v1) /\ is_none(v2)
        THEN TRUE
        ELSE IF filter_result = "Ok(true)" THEN TRUE
        ELSE IF filter_result = "Ok(false)" THEN FALSE
        ELSE TRUE

\* tick_data_change notifying a first observation only if it carries a variant.
tick_data_change_first_needs_variant(filter_result, data_value, last_value) ==
    IF is_none(last_value)
    THEN is_some(data_value.value)
    ELSE ~compare_data_values(filter_result, data_value, unwrap(last_value))

\* The data_change decision of tick for a retrieved data value.
tick_data_change(filter_result, data_value, last_value) ==
    IF is_none(last_value)
    THEN TRUE
    ELSE ~compare_data_values(filter_result, data_value, unwrap(last_value))

\* notification_message carrying the item's id for the client handle.
notification_message_item_id(handle, data_value, serial) ==
    [client_handle |-> "monitored_item_id", value |-> data_value, serial |-> serial]

\* The MonitoredItemNotification tick builds; serial numbers the
\* notifications in the order they are produced.
notification_message(handle, data_value, serial) ==
    [client_handle |-> handle, value |-> data_value, serial |-> serial]

\* Vec::pop: the queue without its back entry.
pop(queue) == SubSeq(queue, 1, Len(queue) - 1)

\* Vec::insert(0, x).
insert_front(queue, x) == <<x>> \o queue

\* enqueue_overflow forgetting to pop before it inserts.
enqueue_overflow_no_pop(queue, discard, message) ==
    IF discard
    THEN insert_front(queue, message)
    ELSE [queue EXCEPT ![1] = message]

\* enqueue_overflow discarding the newest entry instead of the oldest.
enqueue_overflow_discards_newest(queue, discard, message) ==
    IF discard
    THEN insert_front(SubSeq(queue, 2, Len(queue)), message)
    ELSE [queue EXCEPT ![1] = message]

\* enqueue_overflow overwriting the back entry instead of the front one.
enqueue_overflow_overwrites_back(queue, discard, message) ==
    IF discard
    THEN insert_front(pop(queue), message)
    ELSE [queue EXCEPT ![Len(queue)] = message]

\* enqueue_overflow inserting at the front where it should overwrite it.
enqueue_overflow_inserts(queue, discard, message) ==
    IF discard
    THEN insert_front(pop(queue), message)
    ELSE insert_front(queue, message)

\* The overflow branch of tick: the queue is full.
enqueue_overflow(queue, discard, message) ==
    IF discard
    THEN insert_front(pop(queue), message)
    ELSE [queue EXCEPT ![1] = message]

\* Whether tick's enqueue takes the overflow branch.
queue_is_full(queue, size) == Len(queue) = size

\* The queue after tick's enqueue.
enqueue(queue, size, discard, message) ==
    IF queue_is_full(queue, size)
    THEN enqueue_overflow(queue, discard, message)
    ELSE insert_front(queue, message)

\* enqueue_overflow_flag testing for a queue longer than its size.
enqueue_overflow_flag_off_by_one(queue, size, flag) ==
    IF Len(queue) > size THEN TRUE ELSE flag

\* enqueue_overflow_flag set by every enqueue.
enqueue_overflow_flag_always(queue, size, flag) == TRUE

\* queue_overflow after tick's enqueue.
enqueue_overflow_flag(queue, size, flag) ==
    IF queue_is_full(queue, size) THEN TRUE ELSE flag

\* tick_lookup reading the attribute without validating its id.
tick_lookup_ignores_invalid_id(address_space, id_valid) ==
    IF is_none(address_space) THEN None
    ELSE unwrap(address_space)

\* What tick reads, if it is due: Some(data value), or None when the node is
\* not found, the attribute id is invalid or the attribute has no value.
tick_lookup(address_space, id_valid) ==
    IF is_none(address_space) THEN None
    ELSE IF ~id_valid THEN None
    ELSE unwrap(address_space)

\* Whether tick gets as far as calling deadband_compare: it is due, it has
\* read a data value, there is a previous one, and both carry a variant.
tick_calls_filter(address_space, now, subscription_interval_elapsed) ==
    LET data_value == tick_lookup(address_space, attribute_id_valid)
    IN  /\ tick_check_value(sampling_interval, last_sample_time, last_data_value,
                            now, subscription_interval_elapsed)
        /\ is_some(data_value)
        /\ is_some(last_data_value)
        /\ is_some(unwrap(data_value).value)
        /\ is_some(unwrap(last_data_value).value)

\* tick_last_sample_time stamping the item before the due test.
tick_last_sample_time_always(due, now, last_time) == now

\* last_sample_time after a tick: set to now once the tick is due.
tick_last_sample_time(due, now, last_time) == IF due THEN now ELSE last_time

\* tick_last_data_value storing every data value read.
tick_last_data_value_every_read(data_change, data_value, last_value) ==
    IF is_some(data_value) THEN data_value ELSE last_value

\* last_data_value after a tick: the data value read, if it is a change.
tick_last_data_value(data_change, data_value, last_value) ==
    IF data_change THEN Some(unwrap(data_value)) ELSE last_value

tick(address_space, now, subscription_interval_elapsed, filter_result) ==
    LET due == tick_check_value(sampling_interval, last_sample_time, last_data_value,
                                now, subscription_interval_elapsed)
        data_value == IF due THEN tick_lookup(address_space, attribute_id_valid) ELSE None
        data_change == /\ due
                       /\ is_some(data_value)
                       /\ tick_data_change(filter_result, unwrap(data_value), last_data_value)
        message == notification_message(client_handle, unwrap(data_value), n_produced + 1)
    IN  /\ created = "Ok"
        /\ n_produced < MaxProduced
        /\ op' = "tick"
        /\ arg_now' = now
        /\ arg_elapsed' = subscription_interval_elapsed
        /\ arg_address_space' = address_space
        /\ arg_filter' = filter_result
        /\ check_value' = due
        /\ found' = data_value
        /\ deq_ret' = None
        /\ tick_ret' = data_change
        /\ last_sample_time' = tick_last_sample_time(due, now, last_sample_time)
        /\ last_data_value' =
               tick_last_data_value(data_change, data_value, last_data_value)
        /\ IF data_change
           THEN /\ notification_queue' =
                       enqueue(notification_queue, queue_size, discard_oldest, message)
                /\ queue_overflow' =
                       enqueue_overflow_flag(notification_queue, queue_size, queue_overflow)
                /\ n_produced' = n_produced + 1
                /\ since_dequeue' = since_dequeue + 1
                /\ overflow_since_dequeue' =
                       (overflow_since_dequeue \/ Len(notification_queue) >= queue_size)
                /\ n_overflow' =
                       IF Len(notification_queue) >= queue_size
                       THEN n_overflow + 1 ELSE n_overflow
           ELSE UNCHANGED <<notification_queue, queue_overflow,
                            n_produced, since_dequeue, overflow_since_dequeue,
                            n_overflow>>
        /\ UNCHANGED <<created, sampling_interval, discard_oldest, queue_size,
                       client_handle, attribute_id_valid, create_request, n_dequeued>>

\* A tick with every input it can be given. A tick that is not due does not
\* consult the address space, and deadband_compare answers only when called.
Tick ==
    \E now \in Times, subscription_interval_elapsed \in BOOLEAN :
        \E address_space \in
               IF tick_check_value(sampling_interval, last_sample_time, last_data_value,
                                   now, subscription_interval_elapsed)
               THEN AddressSpaces ELSE {None} :
            \E filter_result \in
                   IF tick_calls_filter(address_space, now, subscription_interval_elapsed)
                   THEN FilterResults ELSE {"not called"} :
                tick(address_space, now, subscription_interval_elapsed, filter_result)

GetNotificationMessage == get_notification_message

Next == Tick \/ GetNotificationMessage

Spec == Init /\ [][Next]_vars

(* ------------------------------------------------------------ properties *)

\* The serial numbers of the queued notifications, front to back.
serials(queue) == [i \in 1..Len(queue) |-> queue[i].serial]

\* The last call was a tick that produced a notification.
produced == op = "tick" /\ tick_ret

\* C1: in every state of a constructed item the number of queued
\* notifications is at most queue_size, and queue_size is at least 1.
C1_QueueBounded ==
    created = "Ok" => Len(notification_queue) <= queue_size /\ queue_size >= 1

\* A tick has just overflowed a queue of more than one entry.
C1_Witness ==
    /\ created = "Ok" /\ produced /\ queue_overflow
    /\ queue_size > 1 /\ Len(notification_queue) = queue_size

\* C2: with discard_oldest, a tick that produces a notification on a full
\* queue drops the back entry and puts the new notification at the front;
\* and once queue_size or more notifications were produced since the last
\* successful dequeue, the queue holds the queue_size most recent ones,
\* newest at the front.
C2_DiscardOldest ==
    /\ [][produced' /\ discard_oldest /\ Len(notification_queue) = queue_size
            => /\ notification_queue' =
                      <<notification_queue'[1]>> \o
                          SubSeq(notification_queue, 1, Len(notification_queue) - 1)
               /\ notification_queue'[1].serial = n_produced'
               /\ n_produced' = n_produced + 1]_vars
    /\ [](created = "Ok" /\ discard_oldest /\ since_dequeue >= queue_size
            => serials(notification_queue) =
                   [i \in 1..queue_size |-> n_produced - i + 1])

\* Capacity 2, three notifications and no dequeue: the queue is [3, 2].
C2_Witness ==
    /\ created = "Ok" /\ discard_oldest /\ queue_size = 2
    /\ n_produced = 3 /\ since_dequeue = 3
    /\ serials(notification_queue) = <<3, 2>>
    /\ queue_overflow

\* C3: without discard_oldest, a tick that produces a notification on a
\* full queue replaces the front entry only: the length and every entry
\* behind the front stay as they were.
C3_OverwriteFront ==
    [][produced' /\ ~discard_oldest /\ Len(notification_queue) = queue_size
          => /\ Len(notification_queue') = Len(notification_queue)
             /\ \A i \in 2..Len(notification_queue) :
                    notification_queue'[i] = notification_queue[i]
             /\ notification_queue'[1].serial = n_produced'
             /\ n_produced' = n_produced + 1]_vars

\* Capacity 2, three notifications and no dequeue: the queue is [3, 1].
C3_Witness ==
    /\ created = "Ok" /\ ~discard_oldest /\ queue_size = 2 /\ produced
    /\ n_produced = 3 /\ since_dequeue = 3
    /\ serials(notification_queue) = <<3, 1>>
    /\ queue_overflow

\* C4: queue_overflow is true exactly when a notification was produced on
\* a full queue since the last dequeue that returned a notification.
C4_OverflowFlag ==
    created = "Ok" => (queue_overflow <=> overflow_since_dequeue)

\* A notification went into a queue that was not full after an overflow
\* was cleared by a dequeue: the flag stays clear.
C4_Witness ==
    /\ created = "Ok" /\ produced /\ ~queue_overflow
    /\ n_produced > queue_size + 1 /\ since_dequeue = 1
    /\ Len(notification_queue) = queue_size

\* C5: get_notification_message on a non-empty queue returns the front
\* entry, which is the most recently produced one in the queue, and leaves
\* the rest in order; on an empty queue it returns None and changes nothing
\* of the item. The queue is always ordered newest first.
C5_DequeueFront ==
    /\ [][op' = "get_notification_message"
            => IF notification_queue = <<>>
               THEN deq_ret' = None /\ UNCHANGED item
               ELSE /\ deq_ret' = Some(notification_queue[1])
                    /\ notification_queue' = Tail(notification_queue)
                    /\ \A i \in 1..Len(notification_queue) :
                           notification_queue[i].serial <= notification_queue[1].serial
                    /\ UNCHANGED <<sampling_interval, discard_oldest, queue_size,
                                   client_handle, attribute_id_valid, last_sample_time,
                                   last_data_value>>]_vars
    /\ [](\A i, j \in 1..Len(notification_queue) :
              i < j => notification_queue[i].serial > notification_queue[j].serial)

\* A dequeue returned the newer of two queued notifications.
C5_Witness ==
    /\ op = "get_notification_message" /\ deq_ret # None
    /\ Len(notification_queue) = 1
    /\ unwrap(deq_ret).serial > notification_queue[1].serial

\* C6 as stated: last_sample_time never goes back across a tick, whatever
\* `now` the tick is given.
C6_Original ==
    [][op' = "tick" => last_sample_time' >= last_sample_time]_vars

\* C6, amended: last_sample_time never goes back across a tick of an item
\* with a positive sampling interval, whatever `now` is; across a tick of
\* any other item it does not go back if `now` is not earlier than
\* last_sample_time.
C6_Monotonic ==
    [][op' = "tick" /\ (gt0(sampling_interval) \/ arg_now' >= last_sample_time)
          => last_sample_time' >= last_sample_time]_vars

\* A due tick of an item with a positive interval moved last_sample_time.
C6_Witness ==
    /\ op = "tick" /\ check_value /\ gt0(sampling_interval)
    /\ last_sample_time = arg_now /\ arg_now = MaxTime

\* C7: a tick that is not due returns false and leaves every field of the
\* item as it was.
C7_NotDueFrame ==
    [][op' = "tick" /\ ~check_value' => tick_ret' = FALSE /\ UNCHANGED item]_vars

\* A tick was not due on an item with a queued notification.
C7_Witness ==
    /\ op = "tick" /\ ~check_value /\ ~tick_ret
    /\ notification_queue # <<>> /\ is_some(last_data_value)

\* C8 as stated: with a positive sampling interval a tick is due exactly
\* when now - last_sample_time >= sampling_interval.
C8_Original ==
    [][op' = "tick" /\ gt0(sampling_interval)
          => (check_value' <=> arg_now' - last_sample_time >= sampling_interval.units)]_vars

\* C9: with a zero sampling interval every tick is due: it sets
\* last_sample_time to `now` and evaluates the value it reads (a first
\* value read is notified).
C9_ZeroAlwaysDue ==
    [][op' = "tick" /\ eq0(sampling_interval)
          => /\ check_value'
             /\ last_sample_time' = arg_now'
             /\ (is_some(found') /\ is_none(last_data_value) => tick_ret')]_vars

\* A tick of a zero-interval item was due with `now` earlier than the
\* previous sample and the elapsed flag false.
C9_Witness ==
    /\ op = "tick" /\ eq0(sampling_interval) /\ check_value /\ ~arg_elapsed
    /\ last_sample_time = 0 /\ n_produced > 1

\* C10: with a negative sampling interval a tick is due exactly when the
\* subscription-elapsed flag is true; with the flag false it returns false
\* and leaves the item as it was.
C10_NegativeFollowsFlag ==
    [][op' = "tick" /\ lt0(sampling_interval)
          => /\ check_value' <=> arg_elapsed'
             /\ (~arg_elapsed' => tick_ret' = FALSE /\ UNCHANGED item)]_vars

\* A tick of a negative-interval item was due, with the flag true and `now`
\* not later than the previous sample.
C10_Witness ==
    /\ op = "tick" /\ lt0(sampling_interval) /\ check_value /\ arg_elapsed
    /\ last_sample_time = 0 /\ n_produced > 1

\* The address space answer resolves the node, the item's attribute id and
\* a data value.
resolved(address_space) ==
    /\ is_some(address_space)
    /\ attribute_id_valid
    /\ is_some(unwrap(address_space))

\* The data value of a resolved address space answer.
resolved_value(address_space) == unwrap(unwrap(address_space))

\* C11: a due tick of an item with no previous value that resolves a data
\* value returns true and enqueues a notification of it, whatever the value
\* is, and deadband_compare is not called.
C11_FirstObservation ==
    [][op' = "tick" /\ check_value' /\ is_none(last_data_value)
          /\ resolved(arg_address_space')
          => /\ tick_ret'
             /\ arg_filter' = "not called"
             /\ n_produced' = n_produced + 1
             /\ Len(notification_queue') > 0
             /\ notification_queue'[1].value = resolved_value(arg_address_space')
             /\ notification_queue'[1].serial = n_produced']_vars

\* The first notification of an item carries a data value with no variant.
C11_Witness ==
    /\ produced /\ n_produced = 1 /\ arg_filter = "not called"
    /\ found = Some([value |-> None])
    /\ notification_queue = <<[client_handle |-> client_handle,
                               value |-> [value |-> None], serial |-> 1]>>

\* C12: a due tick in which deadband_compare is called and fails returns
\* false, enqueues nothing and leaves last_data_value, the queue and
\* queue_overflow as they were; last_sample_time is set to `now`.
C12_FilterFailure ==
    [][op' = "tick" /\ arg_filter' = "Err"
          => /\ tick_ret' = FALSE
             /\ last_sample_time' = arg_now'
             /\ UNCHANGED <<last_data_value, notification_queue, queue_overflow>>]_vars

\* The comparison of a value read with a different previous value failed.
C12_Witness ==
    /\ op = "tick" /\ arg_filter = "Err" /\ ~tick_ret /\ check_value
    /\ is_some(found) /\ found # last_data_value
    /\ is_some(unwrap(found).value) /\ is_some(unwrap(last_data_value).value)
    /\ notification_queue # <<>>

\* C13: a due tick whose lookup fails (no node, invalid attribute id, or no
\* data value) returns false, sets last_sample_time to `now` and leaves
\* last_data_value, the queue and queue_overflow as they were.
C13_LookupFailure ==
    [][op' = "tick" /\ check_value' /\ ~resolved(arg_address_space')
          => /\ tick_ret' = FALSE
             /\ last_sample_time' = arg_now'
             /\ UNCHANGED <<last_data_value, notification_queue, queue_overflow>>]_vars

\* A due tick found the node and a data value, but the attribute id of the
\* item is invalid.
C13_Witness ==
    /\ op = "tick" /\ check_value /\ ~tick_ret /\ ~attribute_id_valid
    /\ is_some(arg_address_space) /\ is_some(unwrap(arg_address_space))
    /\ last_sample_time = arg_now /\ arg_now > 0

\* C14: a create request whose filter tag is not the DataChangeFilter
\* encoding is rejected with BadFilterNotAllowed, whatever its other fields
\* are and whether or not its payload would decode, and there is no item.
C14_FilterNotAllowed ==
    create_request.filter_tag # "DataChangeFilter_Encoding_DefaultBinary"
        => /\ created = "BadFilterNotAllowed"
           /\ op = "new"
           /\ item = <<no_item.sampling_interval, no_item.discard_oldest,
                       no_item.queue_size, no_item.client_handle,
                       no_item.attribute_id_valid, no_item.notification_queue,
                       no_item.last_sample_time, no_item.last_data_value,
                       no_item.queue_overflow>>

\* A request with another filter tag, whose payload would not decode either,
\* was rejected for its tag.
C14_Witness ==
    /\ create_request.filter_tag = "EventFilter_Encoding_DefaultBinary"
    /\ ~create_request.filter_decodes
    /\ create_request.queue_size > 0
    /\ created = "BadFilterNotAllowed"

\* C15: an item just constructed has queue_size = max(1, requested queue
\* size), an empty queue, queue_overflow false and no last_data_value.
C15_InitialItem ==
    op = "new" /\ created = "Ok"
        => /\ queue_size = IF create_request.queue_size > 1
                           THEN create_request.queue_size ELSE 1
           /\ notification_queue = <<>>
           /\ queue_overflow = FALSE
           /\ last_data_value = None

\* An item was constructed from a request for a queue of size 0.
C15_Witness ==
    /\ op = "new" /\ created = "Ok"
    /\ create_request.queue_size = 0 /\ queue_size = 1
    /\ notification_queue = <<>>

\* The entries of a queue, as a set.
entries(queue) == {queue[i] : i \in 1..Len(queue)}

\* C16: tick returns true exactly when it has put one new notification in
\* the queue; the notification carries the item's client_handle and the
\* data value just read, which is also the new last_data_value. When tick
\* returns false the queue is as it was.
C16_TrueIffEnqueued ==
    [][op' = "tick"
          => /\ tick_ret' <=>
                    Cardinality(entries(notification_queue') \ entries(notification_queue)) = 1
             /\ tick_ret' =>
                    /\ resolved(arg_address_space')
                    /\ notification_queue'[1] =
                           [client_handle |-> client_handle,
                            value |-> resolved_value(arg_address_space'),
                            serial |-> n_produced + 1]
                    /\ entries(notification_queue') \ {notification_queue'[1]}
                           \subseteq entries(notification_queue)
                    /\ last_data_value' = Some(resolved_value(arg_address_space'))
                    /\ n_produced' = n_produced + 1
             /\ ~tick_ret' =>
                    /\ notification_queue' = notification_queue
                    /\ n_produced' = n_produced]_vars

\* A tick has put a second notification, of another value, in the queue.
C16_Witness ==
    /\ produced /\ Len(notification_queue) = 2
    /\ notification_queue[1].client_handle = create_request.client_handle
    /\ Some(notification_queue[1].value) = found
    /\ last_data_value = found
    /\ notification_queue[1].value # notification_queue[2].value

\* C17: with a previous value, a due tick that reads a data value notifies
\* when exactly one of the two carries a variant, does not notify when
\* neither does, and calls deadband_compare only when both do: its answer
\* true (same) means no notification, false means one.
C17_PresenceDecision ==
    [][op' = "tick" /\ check_value' /\ is_some(last_data_value)
          /\ resolved(arg_address_space')
          => LET current == resolved_value(arg_address_space').value
                 previous == unwrap(last_data_value).value
             IN  /\ is_some(current) # is_some(previous)
                        => tick_ret' /\ arg_filter' = "not called"
                 /\ is_none(current) /\ is_none(previous)
                        => ~tick_ret' /\ arg_filter' = "not called"
                 /\ is_some(current) /\ is_some(previous)
                        => /\ arg_filter' \in FilterResults
                           /\ arg_filter' = "Ok(true)" => ~tick_ret'
                           /\ arg_filter' = "Ok(false)" => tick_ret']_vars

\* A value that lost its variant was notified after one that had it.
C17_Witness ==
    /\ produced /\ Len(notification_queue) = 2 /\ arg_filter = "not called"
    /\ is_none(notification_queue[1].value.value)
    /\ is_some(notification_queue[2].value.value)

\* C18: queue_overflow is true only on a full queue.
C18_OverflowOnlyWhenFull ==
    created = "Ok" /\ queue_overflow => Len(notification_queue) = queue_size

\* The one dequeue so far followed an overflow of a queue of two: the queue
\* is partly filled and the flag is clear.
C18_Witness ==
    /\ created = "Ok" /\ op = "get_notification_message" /\ deq_ret # None
    /\ n_overflow > 0 /\ n_dequeued = 1 /\ queue_size = 2
    /\ Len(notification_queue) = 1 /\ ~queue_overflow

\* C19: last_data_value is None exactly as long as no tick has returned
\* true; a tick that returns true sets it to the value of the notification
\* it produces, and no other call changes it.
C19_ComparisonReference ==
    /\ [](is_none(last_data_value) <=> n_produced = 0)
    /\ [][IF op' = "tick" /\ tick_ret'
          THEN last_data_value' = Some(notification_queue'[1].value)
          ELSE UNCHANGED last_data_value]_vars

\* A value read was judged unchanged against a different previous value,
\* whose notification has left the queue.
C19_Witness ==
    /\ op = "tick" /\ check_value /\ ~tick_ret /\ arg_filter = "Ok(true)"
    /\ is_some(found) /\ found # last_data_value
    /\ n_produced > 0 /\ notification_queue = <<>>

\* C20: the notifications produced are those in the queue, those dequeued
\* and those lost to an overflow, one for each overflow.
C20_Conservation ==
    n_produced = Len(notification_queue) + n_dequeued + n_overflow

\* Notifications were queued, dequeued and lost to an overflow.
C20_Witness ==
    /\ n_overflow > 0 /\ n_dequeued > 0 /\ Len(notification_queue) > 0
    /\ n_produced = MaxProduced

====
